---- MODULE Spec2Model ----
(***************************************************************************)
(* Granular tangential submodels (src/GRANULAR/contact_tangential_models   *)
(* .cpp) and their GSM base class (src/GRANULAR/gsm.cpp).                  *)
(*                                                                         *)
(* A double is an extended rational <<n, d>> with d >= 0 in lowest terms:  *)
(*   d > 0            the finite value n/d                                 *)
(*   <<1,0>>, <<-1,0>> +infinity, -infinity                                *)
(*   <<0,0>>          NaN                                                  *)
(* Arithmetic is exact on finite values and follows IEEE 754 on the        *)
(* non-finite ones (x/0, 0*inf, sqrt of a negative, comparisons with NaN). *)
(* Square roots are exact on perfect-square rationals; calculate_forces is *)
(* explored on the kinematics for which every root it uses is exact.       *)
(***************************************************************************)
EXTENDS Integers, Sequences, FiniteSets

\* ------------------------------------------------------------------ bounds

\* calculate_forces calls explored per contact
MaxSteps == 2

\* ------------------------------------------------------- double arithmetic

Abs(i) == IF i < 0 THEN -i ELSE i

Sign(i) == IF i < 0 THEN -1 ELSE IF i > 0 THEN 1 ELSE 0

RECURSIVE GCD(_, _)
GCD(a, b) == IF b = 0 THEN a ELSE GCD(b, a % b)

\* n/d with the common factor g divided out and the sign in the numerator
Reduce(n, d, g) == IF d < 0 THEN <<(-n) \div g, (-d) \div g>> ELSE <<n \div g, d \div g>>

Norm(n, d) == IF d = 0 THEN <<Sign(n), 0>> ELSE Reduce(n, d, GCD(Abs(n), Abs(d)))

R(i) == <<i, 1>>

Q(n, d) == Norm(n, d)

NaN == <<0, 0>>

Zero == <<0, 1>>

One == <<1, 1>>

IsNaN(x) == x = NaN

IsFinite(x) == x[2] > 0

Neg(x) == <<-x[1], x[2]>>

Fabs(x) == <<Abs(x[1]), x[2]>>

Mul(x, y) == Norm(x[1] * y[1], x[2] * y[2])

Add(x, y) ==
  IF x[2] = 0 /\ y[2] = 0 /\ x = y THEN x
  ELSE Norm(x[1] * y[2] + y[1] * x[2], x[2] * y[2])

Sub(x, y) == Add(x, Neg(y))

Inv(x) == Norm(x[2], x[1])

Div(x, y) == Mul(x, Inv(y))

\* x < y; false when either side is NaN
Lt(x, y) ==
  IF IsNaN(x) \/ IsNaN(y) THEN FALSE
  ELSE IF x[2] = 0 /\ y[2] = 0 THEN x[1] < y[1]
  ELSE x[1] * y[2] < y[1] * x[2]

Gt(x, y) == Lt(y, x)

\* x == y; false when either side is NaN
FEq(x, y) == ~IsNaN(x) /\ ~IsNaN(y) /\ x = y

FNe(x, y) == ~FEq(x, y)

Le(x, y) == Lt(x, y) \/ FEq(x, y)

\* #define MIN(A,B) ((A) < (B) ? (A) : (B))
MIN(a, b) == IF Lt(a, b) THEN a ELSE b

RECURSIVE ISqrtIn(_, _, _)
ISqrtIn(n, lo, hi) ==
  IF lo >= hi THEN lo
  ELSE LET mid == (lo + hi + 1) \div 2
       IN  IF mid * mid <= n THEN ISqrtIn(n, mid, hi) ELSE ISqrtIn(n, lo, mid - 1)

\* floor of the square root of a natural number
ISqrt(n) == ISqrtIn(n, 0, IF n < 46340 THEN n ELSE 46340)

Square(i) == i * i

IsSquare(n) == Square(ISqrt(n)) = n

\* the root is representable: sqrt(x) below returns the exact value
ExactRoot(x) == x[2] = 0 \/ x[1] < 0 \/ (IsSquare(x[1]) /\ IsSquare(x[2]))

\* sqrt: NaN for a negative or NaN argument, +inf for +inf, otherwise the
\* root, rounded up to a multiple of 1/d when n/d is no perfect square
Sqrt(x) ==
  IF IsNaN(x) \/ x[1] < 0 THEN NaN
  ELSE IF x[2] = 0 THEN x
  ELSE IF IsSquare(x[1]) /\ IsSquare(x[2]) THEN <<ISqrt(x[1]), ISqrt(x[2])>>
  ELSE Norm(ISqrt(x[1] * x[2]) + 1, x[2])

\* --------------------------------------------------- MathExtra 3-vectors

V3(a, b, c) == <<R(a), R(b), R(c)>>

ZeroVec == V3(0, 0, 0)

scale3(s, v) == <<Mul(s, v[1]), Mul(s, v[2]), Mul(s, v[3])>>

add3(v, w) == <<Add(v[1], w[1]), Add(v[2], w[2]), Add(v[3], w[3])>>

sub3(v, w) == <<Sub(v[1], w[1]), Sub(v[2], w[2]), Sub(v[3], w[3])>>

dot3(v, w) == Add(Add(Mul(v[1], w[1]), Mul(v[2], w[2])), Mul(v[3], w[3]))

lensq3(v) == dot3(v, v)

len3(v) == Sqrt(lensq3(v))

\* ------------------------------------------------------------------- state

VARIABLES
  variant,          \* which Tangential* class the instance is
  num_coeffs,       \* GSM::num_coeffs
  size_history,     \* GSM::size_history
  history_index,    \* GSM::history_index, the instance's offset in contact->history
  mindlin_force,    \* TangentialMindlin::mindlin_force
  mindlin_rescale,  \* TangentialMindlin::mindlin_rescale
  nondefault_history_transfer,  \* GSM::nondefault_history_transfer
  transfer_alloc,   \* doubles in the allocation transfer_history_factor points to, 0 for nullptr
  transfer_history_factor,  \* what transfer_history_factor[0..size_history-1] reads, <<>> for nullptr
  coeffs,           \* GSM::coeffs, 1..num_coeffs
  k, xt, mu, damp,  \* the working parameters of TangentialModel
  normal_model,     \* contact->normal_model: material_properties, Emod, poiss, Fncrit
  damping_model,    \* contact->damping_model: damp
  contact,          \* the ContactModel fields the tangential model reads and writes
  pc,               \* "constructed", "coeffs", "ready", or "error" after error->all
  errmsg,           \* the message passed to error->all
  call,             \* the member function called last, with its arguments
  locals,           \* the local variables of the last calculate_forces
  steps,            \* calculate_forces calls made
  narg, arg,        \* the arguments of the fix oneway command
  direction,        \* FixOneWay::direction
  nevery,           \* Fix::nevery
  global_freq,      \* Fix::global_freq
  idregion,         \* FixOneWay::idregion
  region,           \* FixOneWay::region, "nullptr" or the region's id
  groupbit,         \* Fix::groupbit
  atom              \* atom->nlocal, atom->x, atom->v, atom->mask

ctor == <<variant, num_coeffs, size_history, history_index, mindlin_force, mindlin_rescale,
          nondefault_history_transfer, transfer_alloc, transfer_history_factor>>

params == <<k, xt, mu, damp>>

\* the state of the fix oneway instance and of the atoms it acts on
oneway == <<narg, arg, direction, nevery, global_freq, idregion, region, groupbit, atom>>

\* the state of the tangential submodel and of its contact
granular == <<ctor, coeffs, params, normal_model, damping_model, contact, locals>>

vars == <<ctor, coeffs, params, normal_model, damping_model, contact, pc, errmsg, call, locals, steps,
          oneway>>

\* an uninitialised double: allocated or declared, never assigned
Uninit == <<0, -1>>

Variants ==
  {"linear_nohistory", "linear_history", "mindlin", "mindlin_force",
   "mindlin_rescale", "mindlin_rescale_force"}

MindlinFamily == {"mindlin", "mindlin_force", "mindlin_rescale", "mindlin_rescale_force"}

HistoryVariants == Variants \ {"linear_nohistory"}

\* ------------------------------------------------------------ constructors

\* GSM::GSM: the defaults every submodel starts from
GSM == [num_coeffs |-> 0, size_history |-> 0, history_index |-> 0,
        mindlin_force |-> 0, mindlin_rescale |-> 0,
        nondefault_history_transfer |-> 0, transfer_alloc |-> 0]

\* new double(size_history): one double, initialised to size_history
NewDouble(n) == 1

TangentialLinearNoHistory == [GSM EXCEPT !.num_coeffs = 2, !.size_history = 3]

TangentialLinearHistory == [GSM EXCEPT !.num_coeffs = 3, !.size_history = 3]

TangentialMindlin ==
  [GSM EXCEPT !.num_coeffs = 3, !.size_history = 3, !.mindlin_force = 0, !.mindlin_rescale = 0]

TangentialMindlinForce ==
  [GSM EXCEPT !.num_coeffs = 3, !.size_history = 3, !.mindlin_force = 1, !.mindlin_rescale = 0]

TangentialMindlinRescale ==
  [GSM EXCEPT !.num_coeffs = 3, !.size_history = 4, !.mindlin_force = 0, !.mindlin_rescale = 1,
              !.nondefault_history_transfer = 1, !.transfer_alloc = NewDouble(4)]

TangentialMindlinRescaleForce ==
  [GSM EXCEPT !.num_coeffs = 3, !.size_history = 4, !.mindlin_force = 1, !.mindlin_rescale = 1,
              !.nondefault_history_transfer = 1, !.transfer_alloc = NewDouble(4)]

Construct(v) ==
  CASE v = "linear_nohistory" -> TangentialLinearNoHistory
    [] v = "linear_history" -> TangentialLinearHistory
    [] v = "mindlin" -> TangentialMindlin
    [] v = "mindlin_force" -> TangentialMindlinForce
    [] v = "mindlin_rescale" -> TangentialMindlinRescale
    [] v = "mindlin_rescale_force" -> TangentialMindlinRescaleForce

\* for (i < size_history) transfer_history_factor[i] = -1.0;
\* transfer_history_factor[3] = +1: the value written at index i (from 1)
TransferWritten(i) == IF i = 4 THEN One ELSE R(-1)

\* what the memory past the end of the allocation holds when it belongs to
\* another owner
HeapNeighbour == Zero

\* The tables a constructor can leave: nullptr when nothing was allocated;
\* otherwise the writes inside the allocation are kept, and the writes past
\* its end are undefined behaviour: that memory is either slack of the
\* allocator's block, and reads as written, or another owner's, and reads as
\* the owner left it.
TransferTable(alloc, sh, slack) ==
  [i \in 1..sh |-> IF i <= alloc \/ slack THEN TransferWritten(i) ELSE HeapNeighbour]

TransferTables(alloc, sh) ==
  IF alloc = 0 THEN {<<>>} ELSE {TransferTable(alloc, sh, slack) : slack \in BOOLEAN}

\* ------------------------------------------------------------ gsm.cpp

\* GSM::mix_geom
mix_geom(val1, val2) == Sqrt(Mul(val1, val2))

\* GSM::mix_stiffnessG
mix_stiffnessG(E1, E2, pois1, pois2) ==
  LET factor1 == Div(Mul(Mul(R(2), Sub(R(2), pois1)), Add(One, pois1)), E1)
      factor2 == Div(Mul(Mul(R(2), Sub(R(2), pois2)), Add(One, pois2)), E2)
  IN  Div(One, Add(factor1, factor2))

\* ------------------------------------------------- coeffs_to_local

IllegalLinearNoHistory == "Illegal linear no history tangential model"

IllegalLinearHistory == "Illegal linear tangential model"

IllegalMindlin == "Illegal Mindlin tangential model"

MissingMaterial ==
  "Must either specify tangential stiffness or material properties for normal model for the Mindlin tangential style"

\* mutant of Illegal: the friction coefficient is not validated
IllegalIgnoringMu(kk, xx, mm) == Lt(kk, Zero) \/ Lt(xx, Zero)

\* if (k < 0.0 || xt < 0.0 || mu < 0.0)
Illegal(kk, xx, mm) == Lt(kk, Zero) \/ Lt(xx, Zero) \/ Lt(mm, Zero)

\* each coeffs_to_local yields the members as error->all or the return leaves
\* them; err is "" on return and the message when error->all ended the run
TangentialLinearNoHistory_coeffs_to_local(c, dm) ==
  LET kk == Zero
      xx == c[1]
      mm == c[2]
      dd == Mul(xx, dm.damp)
  IN  [k |-> kk, xt |-> xx, mu |-> mm, damp |-> dd,
       err |-> IF Illegal(kk, xx, mm) THEN IllegalLinearNoHistory ELSE ""]

TangentialLinearHistory_coeffs_to_local(c, dm) ==
  LET kk == c[1]
      xx == c[2]
      mm == c[3]
      dd == Mul(xx, dm.damp)
  IN  [k |-> kk, xt |-> xx, mu |-> mm, damp |-> dd,
       err |-> IF Illegal(kk, xx, mm) THEN IllegalLinearHistory ELSE ""]

\* k == -1: the stiffness is to be derived from the normal model
IsAuto(kk) == FEq(kk, R(-1))

\* mutant of AutoStiffness: the factor 8.0 is left out
AutoStiffnessUnscaled(nm) == mix_stiffnessG(nm.Emod, nm.Emod, nm.poiss, nm.poiss)

\* mutant of MaterialMissing: the normal model is not asked for its properties
MaterialNeverMissing(k0, nm) == FALSE

\* if (k == -1) if (!contact->normal_model->material_properties) error->all(...)
MaterialMissing(k0, nm) == IsAuto(k0) /\ ~nm.material_properties

\* 8.0 * mix_stiffnessG(Emod, Emod, poiss, poiss)
AutoStiffness(nm) == Mul(R(8), mix_stiffnessG(nm.Emod, nm.Emod, nm.poiss, nm.poiss))

\* olddamp: damp is assigned last and keeps its value when error->all is reached
TangentialMindlin_coeffs_to_local(c, nm, dm, olddamp) ==
  LET k0 == c[1]
      xx == c[2]
      mm == c[3]
      missing == MaterialMissing(k0, nm)
      kk == IF IsAuto(k0) /\ ~missing THEN AutoStiffness(nm) ELSE k0
      bad == ~missing /\ Illegal(kk, xx, mm)
  IN  [k |-> kk, xt |-> xx, mu |-> mm,
       damp |-> IF missing \/ bad THEN olddamp ELSE Mul(xx, dm.damp),
       err |-> IF missing THEN MissingMaterial ELSE IF bad THEN IllegalMindlin ELSE ""]

coeffs_to_local(v, c, nm, dm, olddamp) ==
  CASE v = "linear_nohistory" -> TangentialLinearNoHistory_coeffs_to_local(c, dm)
    [] v = "linear_history" -> TangentialLinearHistory_coeffs_to_local(c, dm)
    [] OTHER -> TangentialMindlin_coeffs_to_local(c, nm, dm, olddamp)

\* ------------------------------------------------------ mix_coeffs

\* GSM::mix_coeffs: for (i < num_coeffs) coeffs[i] = mix_geom(icoeffs[i], jcoeffs[i])
GSM_mix_coeffs(icoeffs, jcoeffs) ==
  [i \in 1..Len(icoeffs) |-> mix_geom(icoeffs[i], jcoeffs[i])]

TangentialLinearNoHistory_mix_coeffs(ic, jc) ==
  <<mix_geom(ic[1], jc[1]), mix_geom(ic[2], jc[2])>>

TangentialLinearHistory_mix_coeffs(ic, jc) ==
  <<mix_geom(ic[1], jc[1]), mix_geom(ic[2], jc[2]), mix_geom(ic[3], jc[3])>>

\* if (imodel->coeffs[0] == -1 || imodel->coeffs[0] == -1) coeffs[0] = -1;
\* else coeffs[0] = mix_geom(imodel->coeffs[0], jmodel->coeffs[0]);
MindlinMixStiffness(ic, jc) ==
  IF IsAuto(ic[1]) \/ IsAuto(ic[1]) THEN R(-1) ELSE mix_geom(ic[1], jc[1])

TangentialMindlin_mix_coeffs(ic, jc) ==
  <<MindlinMixStiffness(ic, jc), mix_geom(ic[2], jc[2]), mix_geom(ic[3], jc[3])>>

\* the coefficients a mix_coeffs call stores, before its coeffs_to_local
mix_coeffs(v, ic, jc) ==
  CASE v = "linear_nohistory" -> TangentialLinearNoHistory_mix_coeffs(ic, jc)
    [] v = "linear_history" -> TangentialLinearHistory_mix_coeffs(ic, jc)
    [] OTHER -> TangentialMindlin_mix_coeffs(ic, jc)

\* ------------------------------------------------- calculate_forces

\* EPSILON of the contact framework, the relative tolerance of the frame update
EPSILON == Q(1, 1000000)

\* the first three slots of a history slice, and the slice with them replaced
Vec3(h) == <<h[1], h[2], h[3]>>

WithVec3(h, v) == [i \in 1..Len(h) |-> IF i <= 3 THEN v[i] ELSE h[i]]

\* The frame of one calculate_forces call: the contact fields and members it
\* reads (nx, vtr, vrel, area, dt, history_update, k, mu, damp, Fncrit), the
\* history slice hs and contact->fs it writes, and its local variables.
\* hent is what the history pointer reaches on entry; hscaled, hproj, hrot and hint are the first
\* three slots after the area rescale, the projection, the rescale that
\* follows it and the update; fsraw is contact->fs before the clip; exact
\* tells that every root taken so far was representable.
NoLocals ==
  [Fscrit |-> Uninit, k_scaled |-> Uninit, frame_update |-> 0, rsht |-> Uninit,
   shrmag |-> Uninit, magfs |-> Uninit, clip |-> FALSE, shrzero |-> FALSE,
   hent |-> <<>>, hscaled |-> <<>>, hproj |-> <<>>, hrot |-> <<>>, hint |-> <<>>,
   fsraw |-> <<>>, exact |-> TRUE]

\* mutant of NoHistoryFt: the damping force is not limited by Fscrit
NoHistoryFtUnlimited(Fscrit, fsmag, vrel) ==
  LET Ft == IF FNe(vrel, Zero) THEN Div(fsmag, vrel) ELSE Zero
  IN  Neg(Ft)

\* Ft = -MIN(Fscrit, fsmag) / vrel, or 0 when vrel is 0
NoHistoryFt(Fscrit, fsmag, vrel) ==
  LET Ft == IF FNe(vrel, Zero) THEN Div(MIN(Fscrit, fsmag), vrel) ELSE Zero
  IN  Neg(Ft)

TangentialLinearNoHistory_calculate_forces(m) ==
  [m EXCEPT !.Fscrit = Mul(m.mu, m.Fncrit),
            !.fs = scale3(NoHistoryFt(Mul(m.mu, m.Fncrit), Mul(m.damp, m.vrel), m.vrel), m.vtr)]

\* frame_update = fabs(rsht) * k > EPSILON * Fscrit
FrameUpdate(rsht, kk, Fscrit) == Gt(Mul(Fabs(rsht), kk), Mul(EPSILON, Fscrit))

\* frame_update of the Mindlin family
MindlinFrameUpdate(force, rsht, k_scaled, Fscrit) ==
  IF force = 1 THEN Gt(Fabs(rsht), Mul(EPSILON, Fscrit)) ELSE FrameUpdate(rsht, k_scaled, Fscrit)

\* the projection of the frame update: scale3(rsht, contact->nx, history)
Project(h, rsht, nx) == scale3(rsht, nx)

\* mutant of Rescale: the projected history is not rescaled
RescaleSkipped(h, shrmag) == h

\* the rescale after the projection: history *= shrmag / prjmag, or 0
RescaleBy(h, shrmag, prjmag) ==
  scale3(IF Gt(prjmag, Zero) THEN Div(shrmag, prjmag) ELSE Zero, h)

Rescale(h, shrmag) == RescaleBy(h, shrmag, len3(h))

\* if (frame_update) { shrmag = len3(history); projection; rescale }
Rotated(m, shrmag, hp, hr) ==
  [m EXCEPT !.frame_update = 1, !.shrmag = shrmag, !.hproj = hp, !.hrot = hr,
            !.hs = WithVec3(m.hs, hr),
            !.exact = m.exact /\ ExactRoot(lensq3(Vec3(m.hs))) /\ ExactRoot(lensq3(hp))]

Projected(m, shrmag, hp) == Rotated(m, shrmag, hp, Rescale(hp, shrmag))

RotateHistory(m, fu) ==
  IF fu THEN Projected(m, len3(Vec3(m.hs)), Project(Vec3(m.hs), m.rsht, m.nx)) ELSE m

\* mutant of ClipForce: the force is left at its raw value
ClipForceUnscaled(fs, Fscrit, magfs) == fs

\* the force the clip branch stores for a non-zero shrmag
ClipForce(fs, Fscrit, magfs) == scale3(Div(Fscrit, magfs), fs)

\* the history the clip branch of the linear model stores for a non-zero shrmag
ClipHistory(fs, vtr, dd, Fscrit, magfs) ==
  add3(scale3(Div(Fscrit, magfs), fs), scale3(dd, vtr))

\* the history the clip branch of the Mindlin family stores for a non-zero shrmag
MindlinClipHistory(force, fs, vtr, dd, Fscrit, magfs, k_scaled) ==
  LET h == ClipHistory(fs, vtr, dd, Fscrit, magfs)
  IN  IF force # 1 THEN scale3(Div(Neg(One), k_scaled), h) ELSE h

\* mutant of Clipped: the zero history magnitude is not singled out
ClippedAlwaysScaled(m, hclip, magfs, shrzero) ==
  [m EXCEPT !.clip = TRUE, !.hs = WithVec3(m.hs, hclip),
            !.fs = ClipForce(m.fs, m.Fscrit, magfs)]

\* rescale frictional displacements and forces if needed; hclip is the
\* history the branch for a non-zero shrmag stores
Clipped(m, hclip, magfs, shrzero) ==
  IF ~shrzero
  THEN [m EXCEPT !.clip = TRUE, !.hs = WithVec3(m.hs, hclip),
                 !.fs = ClipForce(m.fs, m.Fscrit, magfs)]
  ELSE [m EXCEPT !.clip = TRUE, !.shrzero = TRUE, !.fs = ZeroVec]

ClipIf(m, hclip, magfs) ==
  IF Gt(magfs, m.Fscrit) THEN Clipped(m, hclip, magfs, ~FNe(len3(Vec3(m.hs)), Zero)) ELSE m

Clip(m, hclip) ==
  ClipIf([m EXCEPT !.fsraw = m.fs, !.magfs = len3(m.fs),
                   !.exact = m.exact /\ ExactRoot(lensq3(m.fs))],
         hclip, len3(m.fs))

\* --- TangentialLinearHistory::calculate_forces

LinearEnter(m) ==
  [m EXCEPT !.Fscrit = Mul(m.Fncrit, m.mu), !.hent = m.hs, !.hscaled = Vec3(m.hs),
            !.hproj = Vec3(m.hs), !.hrot = Vec3(m.hs)]

LinearRotateBy(m, rsht) ==
  RotateHistory([m EXCEPT !.rsht = rsht], FrameUpdate(rsht, m.k, m.Fscrit))

LinearRotate(m) == LinearRotateBy(m, dot3(Vec3(m.hs), m.nx))

\* temp_dbl = k * dt; history -= temp_dbl * vtr
LinearIntegrate(m) ==
  [m EXCEPT !.hs = WithVec3(m.hs, sub3(Vec3(m.hs), scale3(Mul(m.k, m.dt), m.vtr)))]

LinearUpdate(m) == IF m.history_update THEN LinearIntegrate(LinearRotate(m)) ELSE m

\* tangential forces = history + tangential velocity damping
LinearForce(m) == [m EXCEPT !.hint = Vec3(m.hs), !.fs = scale3(Neg(m.damp), m.vtr)]

LinearClip(m) == Clip(m, ClipHistory(m.fs, m.vtr, m.damp, m.Fscrit, len3(m.fs)))

TangentialLinearHistory_calculate_forces(m) ==
  LinearClip(LinearForce(LinearUpdate(LinearEnter(m))))

\* --- TangentialMindlin::calculate_forces

\* on unloading, rescale the shear displacements/force
AreaRescale(hs, area) ==
  IF Lt(area, hs[4]) THEN WithVec3(hs, scale3(Div(area, hs[4]), Vec3(hs))) ELSE hs

MindlinEntered(m, hs) ==
  [m EXCEPT !.Fscrit = Mul(m.Fncrit, m.mu), !.k_scaled = Mul(m.k, m.area),
            !.hent = m.hs, !.hs = hs, !.hscaled = Vec3(hs),
            !.hproj = Vec3(hs), !.hrot = Vec3(hs)]

MindlinEnter(m) ==
  MindlinEntered(m, IF m.rescale = 1 THEN AreaRescale(m.hs, m.area) ELSE m.hs)

MindlinRotateBy(m, rsht) ==
  RotateHistory([m EXCEPT !.rsht = rsht],
                MindlinFrameUpdate(m.force, rsht, m.k_scaled, m.Fscrit))

MindlinRotate(m) == MindlinRotateBy(m, dot3(Vec3(m.hs), m.nx))

\* mutant of MindlinIncrement: the force-rate increment has lost its sign
MindlinIncrementSignLost(force, k_scaled, dt, vtr) ==
  IF force = 1 THEN scale3(Mul(k_scaled, dt), vtr) ELSE scale3(dt, vtr)

\* the increment the update adds to history
MindlinIncrement(force, k_scaled, dt, vtr) ==
  IF force = 1 THEN scale3(Mul(Neg(k_scaled), dt), vtr) ELSE scale3(dt, vtr)

\* mutant of MindlinIntegrated: the area is stored whatever the variant
MindlinIntegratedAlwaysRecords(m, h) == [m EXCEPT !.hs = [h EXCEPT ![4] = m.area]]

\* add3(history, temp_array, history); if (mindlin_rescale) history[3] = area
MindlinIntegrated(m, h) ==
  [m EXCEPT !.hs = IF m.rescale = 1 THEN [h EXCEPT ![4] = m.area] ELSE h]

MindlinIntegrate(m) ==
  MindlinIntegrated(m, WithVec3(m.hs, add3(Vec3(m.hs),
                                           MindlinIncrement(m.force, m.k_scaled, m.dt, m.vtr))))

MindlinUpdate(m) == IF m.history_update THEN MindlinIntegrate(MindlinRotate(m)) ELSE m

\* tangential forces = history + tangential velocity damping
MindlinRawForce(force, dd, vtr, k_scaled, h) ==
  LET fs == scale3(Neg(dd), vtr)
  IN  IF force # 1 THEN add3(fs, scale3(k_scaled, h)) ELSE fs

MindlinForce(m) ==
  [m EXCEPT !.hint = Vec3(m.hs),
            !.fs = MindlinRawForce(m.force, m.damp, m.vtr, m.k_scaled, Vec3(m.hs))]

MindlinClip(m) ==
  Clip(m, MindlinClipHistory(m.force, m.fs, m.vtr, m.damp, m.Fscrit, len3(m.fs), m.k_scaled))

TangentialMindlin_calculate_forces(m) ==
  MindlinClip(MindlinForce(MindlinUpdate(MindlinEnter(m))))

calculate_forces(v, m) ==
  CASE v = "linear_nohistory" -> TangentialLinearNoHistory_calculate_forces(m)
    [] v = "linear_history" -> TangentialLinearHistory_calculate_forces(m)
    [] OTHER -> TangentialMindlin_calculate_forces(m)

\* the frame calculate_forces starts from: contact fields c, members, slice hs
Frame(c, hs, kk, mm, dd, Fncrit, force, rescale) ==
  [nx |-> c.nx, vtr |-> c.vtr, vrel |-> c.vrel, area |-> c.area, dt |-> c.dt,
   history_update |-> c.history_update, k |-> kk, mu |-> mm, damp |-> dd,
   Fncrit |-> Fncrit, force |-> force, rescale |-> rescale, hs |-> hs, fs |-> c.fs,
   Fscrit |-> Uninit, k_scaled |-> Uninit, frame_update |-> 0, rsht |-> Uninit,
   shrmag |-> Uninit, magfs |-> Uninit, clip |-> FALSE, shrzero |-> FALSE,
   hent |-> hs, hscaled |-> Vec3(hs), hproj |-> Vec3(hs), hrot |-> Vec3(hs),
   hint |-> Vec3(hs), fsraw |-> c.fs, exact |-> TRUE]

\* the locals of a finished call
LocalsOf(m) == [f \in DOMAIN NoLocals |-> m[f]]

\* -------------------------------------------------------------- fix oneway

\* enum { NONE = -1, X = 0, Y = 1, Z = 2, XYZMASK = 3, MINUS = 4, PLUS = 0 }
NONE == -1

X == 0

Y == 1

Z == 2

XYZMASK == 3

MINUS == 4

PLUS == 0

\* a & b on ints in two's complement
RECURSIVE BitAnd(_, _)
BitAnd(a, b) ==
  IF a = 0 \/ b = 0 THEN 0
  ELSE IF a = -1 THEN b
  ELSE IF b = -1 THEN a
  ELSE (a % 2) * (b % 2) + 2 * BitAnd(a \div 2, b \div 2)

\* a | b on ints in two's complement
RECURSIVE BitOr(_, _)
BitOr(a, b) ==
  IF a = 0 THEN b
  ELSE IF b = 0 THEN a
  ELSE IF a = -1 \/ b = -1 THEN -1
  ELSE (IF a % 2 = 1 \/ b % 2 = 1 THEN 1 ELSE 0) + 2 * BitOr(a \div 2, b \div 2)

\* the strings the constructor compares arg[5] with, in the order of the
\* statements, each with the axis and the sign it stands for
DirectionTable ==
  << <<"x", X, PLUS>>, <<"X", X, PLUS>>, <<"y", Y, PLUS>>, <<"Y", Y, PLUS>>,
     <<"z", Z, PLUS>>, <<"Z", Z, PLUS>>, <<"-x", X, MINUS>>, <<"-X", X, MINUS>>,
     <<"-y", Y, MINUS>>, <<"-Y", Y, MINUS>>, <<"-z", Z, MINUS>>, <<"-Z", Z, MINUS>> >>

\* if (strcmp(arg[5], s) == 0) direction = axis | sign; from statement i on
RECURSIVE ParseDirection(_, _, _)
ParseDirection(d, a5, i) ==
  IF i > Len(DirectionTable) THEN d
  ELSE ParseDirection(IF a5 = DirectionTable[i][1]
                        THEN BitOr(DirectionTable[i][2], DirectionTable[i][3])
                        ELSE d,
                      a5, i + 1)

IllegalOneWay == "Illegal fix oneway command"

\* the format string; the region's id is in idregion
RegionMissing == "Region {} for fix oneway does not exist"

\* the regions domain->get_region_by_id finds
DomainRegions == {"box"}

get_region_by_id(id) == IF id \in DomainRegions THEN id ELSE "nullptr"

\* the points region->match accepts
RegionPoints(rg) == IF rg = "box" THEN {V3(0, 0, 0)} ELSE {}

match(rg, p) == p \in RegionPoints(rg)

\* Fix::Fix: groupbit is the bit of the group arg[1] names
GroupBit(g) == IF g = "all" THEN 1 ELSE 2

\* the members before the constructor body has assigned them
FixMembers(gb) ==
  [err |-> "", direction |-> NONE, nevery |-> 0, global_freq |-> 0,
   idregion |-> "", region |-> "nullptr", groupbit |-> gb]

\* FixOneWay::FixOneWay; error->all ends the run where it is called
FixOneWay(n, a) ==
  LET f0 == FixMembers(GroupBit(a[1])) IN
  IF n < 6 THEN [f0 EXCEPT !.err = IllegalOneWay]
  ELSE IF a[3] < 1 THEN [f0 EXCEPT !.err = IllegalOneWay, !.nevery = a[3]]
  ELSE IF get_region_by_id(a[4]) = "nullptr"
    THEN [f0 EXCEPT !.err = RegionMissing, !.nevery = a[3], !.idregion = a[4]]
  ELSE [f0 EXCEPT !.nevery = a[3], !.idregion = a[4],
                  !.direction = ParseDirection(NONE, a[5], 1),
                  !.global_freq = a[3]]

\* mask[i] & groupbit and region->match(x[i][0], x[i][1], x[i][2]), atoms counted from 1
Selected(at, gb, rg, i) == BitAnd(at.mask[i], gb) # 0 /\ match(rg, at.x[i])

\* the element v[i][idx] designates as <<row, column>> counted from 1. idx = 3
\* is one past the row: with the rows stored contiguously it is v[i+1][0],
\* and the access is undefined, so it may as well touch nothing of atom->v.
Element(nlocal, i, idx, contiguous) ==
  IF idx < 3 THEN <<i, idx + 1>>
  ELSE IF contiguous /\ i < nlocal THEN <<i + 1, idx - 2>>
  ELSE <<>>

\* the two branches on direction & MINUS
Reflect(val, dir) ==
  IF BitAnd(dir, MINUS) # 0
    THEN IF Gt(val, Zero) THEN Neg(val) ELSE val
    ELSE IF Lt(val, Zero) THEN Neg(val) ELSE val

\* the loop of end_of_step over the local atoms from atom i on
RECURSIVE EndOfStepLoop(_, _, _, _, _, _, _)
EndOfStepLoop(v, at, dir, gb, rg, contiguous, i) ==
  IF i > at.nlocal THEN v
  ELSE
    EndOfStepLoop(
      IF Selected(at, gb, rg, i)
           /\ Element(at.nlocal, i, BitAnd(dir, XYZMASK), contiguous) # <<>>
        THEN [v EXCEPT ![Element(at.nlocal, i, BitAnd(dir, XYZMASK), contiguous)[1]]
                        [Element(at.nlocal, i, BitAnd(dir, XYZMASK), contiguous)[2]] =
                          Reflect(@, dir)]
        ELSE v,
      at, dir, gb, rg, contiguous, i + 1)

\* FixOneWay::end_of_step: the atoms it leaves behind
end_of_step(at, dir, gb, rg, contiguous) ==
  [at EXCEPT !.v = EndOfStepLoop(at.v, at, dir, gb, rg, contiguous, 1)]

\* no fix oneway is defined
NoFixOneWay ==
  /\ narg = 0 /\ arg = <<>>
  /\ direction = NONE /\ nevery = 0 /\ global_freq = 0
  /\ idregion = "" /\ region = "nullptr" /\ groupbit = 0
  /\ atom = [nlocal |-> 0, x |-> <<>>, v |-> <<>>, mask |-> <<>>]

\* ------------------------------------------------------------- inputs

\* the normal submodel: without material properties, or with Emod and poiss
NormalModels ==
  {[material_properties |-> FALSE, Emod |-> Uninit, poiss |-> Uninit, Fncrit |-> Zero],
   [material_properties |-> TRUE, Emod |-> R(9), poiss |-> Q(1, 2), Fncrit |-> Zero]}

\* the damping submodel's damp
DampingModels == {[damp |-> R(2)]}

\* coefficient values a user may give; -1 is the auto sentinel of the Mindlin stiffness
UserK == {R(-4), R(-1), Zero, R(4)}

UserXt == {R(-1), Zero, One}

UserMu == {R(-1), Zero, One}

UserCoeffs(v) ==
  IF v = "linear_nohistory"
  THEN {<<x, m>> : x \in UserXt, m \in UserMu}
  ELSE {<<kk, x, m>> : kk \in UserK, x \in UserXt, m \in UserMu}

\* the coefficients of the per-type instances: those whose coeffs_to_local returned
AcceptedCoeffs(v, nm, dm) ==
  {c \in UserCoeffs(v) : coeffs_to_local(v, c, nm, dm, Uninit).err = ""}

\* the offsets the owner gives the instance in contact->history; the slot
\* before the instance's slice and the one after it belong to other submodels
HistoryIndexes == {1}

OtherSlot == R(7)

InitHistory(hi, sh) ==
  [i \in 1..(hi + sh + 1) |-> IF i > hi /\ i <= hi + sh THEN Zero ELSE OtherSlot]

\* the instance's slice &contact->history[history_index], size_history long
Slice(h, hi, sh) == SubSeq(h, hi + 1, hi + sh)

\* double *history = & contact->history[history_index]: what the pointer
\* reaches, the buffer from the instance's offset on
HistoryPointer(h, hi) == SubSeq(h, hi + 1, Len(h))

\* the buffer after the writes made through the pointer
WithHistoryPointer(h, hi, v) ==
  [i \in 1..Len(h) |-> IF i > hi THEN v[i - hi] ELSE h[i]]

WithSlice(h, hi, sh, sl) ==
  [i \in 1..Len(h) |-> IF i > hi /\ i <= hi + sh THEN sl[i - hi] ELSE h[i]]

\* unit normal and relative tangential velocity (orthogonal to it) of one step
Directions ==
  {<<V3(0, 0, 1), ZeroVec>>, <<V3(0, 0, 1), V3(3, 4, 0)>>,
   <<V3(1, 0, 0), ZeroVec>>, <<V3(1, 0, 0), V3(0, 3, 4)>>}

\* the contact area is computed for the Mindlin family only
Areas(v) == IF v \in MindlinFamily THEN {One, R(2)} ELSE {One}

\* the critical normal force the normal submodel has computed for the step
Fncrits == {R(4), R(10)}

Kinematics(v) ==
  {[nx |-> d[1], vtr |-> d[2], area |-> a, history_update |-> u, Fncrit |-> f] :
     d \in Directions, a \in Areas(v), u \in BOOLEAN, f \in Fncrits}

\* ------------------------------------------------------------ actions

Init ==
  /\ variant \in Variants
  /\ num_coeffs = Construct(variant).num_coeffs
  /\ size_history = Construct(variant).size_history
  /\ mindlin_force = Construct(variant).mindlin_force
  /\ mindlin_rescale = Construct(variant).mindlin_rescale
  /\ nondefault_history_transfer = Construct(variant).nondefault_history_transfer
  /\ transfer_alloc = Construct(variant).transfer_alloc
  /\ transfer_history_factor \in TransferTables(transfer_alloc, size_history)
  /\ history_index \in HistoryIndexes
  /\ coeffs = [i \in 1..num_coeffs |-> Uninit]
  /\ k = Uninit /\ xt = Uninit /\ mu = Uninit /\ damp = Uninit
  /\ normal_model \in NormalModels
  /\ damping_model \in DampingModels
  /\ contact = [nx |-> V3(0, 0, 1), vtr |-> ZeroVec, vrel |-> Zero, area |-> One,
                dt |-> One, history_update |-> FALSE, fs |-> ZeroVec,
                history |-> InitHistory(history_index, size_history)]
  /\ pc = "constructed"
  /\ errmsg = ""
  /\ call = [op |-> "constructor"]
  /\ locals = NoLocals
  /\ steps = 0
  /\ NoFixOneWay

\* the owner stores the coefficients read for a type pair
SetCoeffs ==
  /\ pc = "constructed"
  /\ \E c \in UserCoeffs(variant) : coeffs' = c
  /\ pc' = "coeffs"
  /\ call' = [op |-> "set_coeffs"]
  /\ UNCHANGED <<oneway, ctor, params, normal_model, damping_model, contact, errmsg, locals, steps>>

\* what a coeffs_to_local on coefficients c leaves behind
RunCoeffsToLocal(c) ==
  \E r \in {coeffs_to_local(variant, c, normal_model, damping_model, damp)} :
    /\ k' = r.k /\ xt' = r.xt /\ mu' = r.mu /\ damp' = r.damp
    /\ errmsg' = r.err
    /\ pc' = IF r.err = "" THEN "ready" ELSE "error"

CoeffsToLocal ==
  /\ pc = "coeffs"
  /\ RunCoeffsToLocal(coeffs)
  /\ call' = [op |-> "coeffs_to_local"]
  /\ UNCHANGED <<oneway, ctor, coeffs, normal_model, damping_model, contact, locals, steps>>

\* mutant of MixThenLocal: mix_coeffs returns without calling coeffs_to_local
MixWithoutLocal(c) ==
  /\ pc' = "ready"
  /\ UNCHANGED <<params, errmsg>>

\* the last statement of every mix_coeffs: coeffs_to_local()
MixThenLocal(c) == RunCoeffsToLocal(c)

\* mix_coeffs of the Tangential* classes on two per-type instances
MixCoeffs ==
  /\ pc = "constructed"
  /\ \E ic, jc \in AcceptedCoeffs(variant, normal_model, damping_model) :
       /\ coeffs' = mix_coeffs(variant, ic, jc)
       /\ MixThenLocal(mix_coeffs(variant, ic, jc))
       /\ call' = [op |-> "mix_coeffs", imodel |-> ic, jmodel |-> jc]
  /\ UNCHANGED <<oneway, ctor, normal_model, damping_model, contact, locals, steps>>

\* GSM::mix_coeffs on the coefficient arrays of two per-type instances
GSMMixCoeffs ==
  /\ pc = "constructed"
  /\ \E ic, jc \in AcceptedCoeffs(variant, normal_model, damping_model) :
       /\ coeffs' = GSM_mix_coeffs(ic, jc)
       /\ MixThenLocal(GSM_mix_coeffs(ic, jc))
       /\ call' = [op |-> "GSM::mix_coeffs", imodel |-> ic, jmodel |-> jc]
  /\ UNCHANGED <<oneway, ctor, normal_model, damping_model, contact, locals, steps>>

CalculateForces ==
  /\ pc = "ready"
  /\ steps < MaxSteps
  /\ \E kin \in Kinematics(variant) :
       \E c \in {[contact EXCEPT !.nx = kin.nx, !.vtr = kin.vtr, !.vrel = len3(kin.vtr),
                                 !.area = kin.area, !.history_update = kin.history_update]} :
         \E m \in {calculate_forces(variant,
                     Frame(c, HistoryPointer(contact.history, history_index),
                           k, mu, damp, kin.Fncrit, mindlin_force, mindlin_rescale))} :
           /\ m.exact
           /\ contact' = [c EXCEPT !.fs = m.fs,
                                   !.history = WithHistoryPointer(contact.history,
                                                                  history_index, m.hs)]
           /\ normal_model' = [normal_model EXCEPT !.Fncrit = kin.Fncrit]
           /\ locals' = LocalsOf(m)
  /\ call' = [op |-> "calculate_forces"]
  /\ steps' = steps + 1
  /\ UNCHANGED <<oneway, ctor, coeffs, params, damping_model, pc, errmsg>>

Next == SetCoeffs \/ CoeffsToLocal \/ MixCoeffs \/ GSMMixCoeffs \/ CalculateForces

Spec == Init /\ [][Next]_vars

\* ------------------------------------------------ fix oneway: the command

\* the most atoms a processor owns
MaxLocal == 2

\* char **arg, counted from 0
Args(s) == [i \in 0..(Len(s) - 1) |-> s[i + 1]]

DirectionArgs == {DirectionTable[i][1] : i \in 1..Len(DirectionTable)} \cup {"w", "+x"}

\* fix ID group oneway N region-ID direction; arg[3] holds the integer
\* utils::inumeric reads from it
Commands ==
  {<<"1", "mobile", "oneway", 1, "box", d>> : d \in DirectionArgs}
    \cup {<<"1", "mobile", "oneway", 1, "box">>,
          <<"1", "mobile", "oneway", 0, "box", "x">>,
          <<"1", "mobile", "oneway", 1, "nosuch", "x">>,
          <<"1", "all", "oneway", 2, "box", "-y">>}

Positions == {V3(0, 0, 0), V3(5, 0, 0)}

Velocities == {V3(-1, 2, 0), V3(2, 0, -1), V3(0, -1, 2)}

\* every atom is in group all (bit 1), some in group mobile (bit 2)
Masks == {1, 3}

Atoms ==
  UNION {[nlocal : {n}, x : [1..n -> Positions], v : [1..n -> Velocities],
          mask : [1..n -> Masks]] : n \in 1..MaxLocal}

\* a tangential submodel that is never used
NoTangential ==
  /\ variant = "linear_nohistory"
  /\ num_coeffs = Construct(variant).num_coeffs
  /\ size_history = Construct(variant).size_history
  /\ mindlin_force = Construct(variant).mindlin_force
  /\ mindlin_rescale = Construct(variant).mindlin_rescale
  /\ nondefault_history_transfer = Construct(variant).nondefault_history_transfer
  /\ transfer_alloc = Construct(variant).transfer_alloc
  /\ transfer_history_factor = <<>>
  /\ history_index = 0
  /\ coeffs = [i \in 1..num_coeffs |-> Uninit]
  /\ k = Uninit /\ xt = Uninit /\ mu = Uninit /\ damp = Uninit
  /\ normal_model = [material_properties |-> 0]
  /\ damping_model = [damp |-> Zero]
  /\ contact = [history |-> <<>>]
  /\ locals = NoLocals

\* the fix oneway command is read; the members are not assigned yet
OneWayInit ==
  /\ NoTangential
  /\ \E c \in Commands : narg = Len(c) /\ arg = Args(c)
  /\ direction = NONE /\ nevery = 0 /\ global_freq = 0
  /\ idregion = "" /\ region = "nullptr" /\ groupbit = 0
  /\ atom \in Atoms
  /\ pc = "command"
  /\ errmsg = ""
  /\ call = [op |-> "fix"]
  /\ steps = 0

\* the command creates the fix
FixOneWayCommand ==
  /\ pc = "command"
  /\ \E f \in {FixOneWay(narg, arg)} :
       /\ direction' = f.direction /\ nevery' = f.nevery /\ global_freq' = f.global_freq
       /\ idregion' = f.idregion /\ region' = f.region /\ groupbit' = f.groupbit
       /\ errmsg' = f.err
       /\ pc' = IF f.err = "" THEN "constructed" ELSE "error"
  /\ call' = [op |-> "FixOneWay"]
  /\ UNCHANGED <<granular, steps, narg, arg, atom>>

\* FixOneWay::init
FixOneWayInit ==
  /\ pc = "constructed"
  /\ region' = get_region_by_id(idregion)
  /\ errmsg' = IF get_region_by_id(idregion) = "nullptr" THEN RegionMissing ELSE ""
  /\ pc' = IF get_region_by_id(idregion) = "nullptr" THEN "error" ELSE "initialized"
  /\ call' = [op |-> "init"]
  /\ UNCHANGED <<granular, steps, narg, arg, direction, nevery, global_freq, idregion,
                 groupbit, atom>>

\* FixOneWay::end_of_step on the atoms as they are
EndOfStep ==
  /\ pc = "initialized"
  /\ \E contiguous \in BOOLEAN :
       atom' = end_of_step(atom, direction, groupbit, region, contiguous)
  /\ call' = [op |-> "end_of_step", atom |-> atom]
  /\ UNCHANGED <<granular, steps, narg, arg, direction, nevery, global_freq, idregion,
                 region, groupbit, pc, errmsg>>

OneWayNext == FixOneWayCommand \/ FixOneWayInit \/ EndOfStep

OneWaySpec == OneWayInit /\ [][OneWayNext]_vars

\* ------------------------------------------------------------- properties

\* the last call was a calculate_forces
Calculated == call.op = "calculate_forces"

\* coeffs_to_local has run, directly or at the end of mix_coeffs
Localized == pc \in {"ready", "error"}

\* the instance's slice of contact->history
History == Slice(contact.history, history_index, size_history)

IllegalMessage(v) ==
  CASE v = "linear_nohistory" -> IllegalLinearNoHistory
    [] v = "linear_history" -> IllegalLinearHistory
    [] OTHER -> IllegalMindlin

NegativeParameter == Lt(k, Zero) \/ Lt(xt, Zero) \/ Lt(mu, Zero)

\* C1: after calculate_forces the magnitude of contact->fs is at most the
\* Coulomb critical force mu * Fncrit.
ForceWithinCoulombLimit ==
  Calculated => Le(len3(contact.fs), Mul(mu, normal_model.Fncrit))

\* C2: mix_coeffs(A, B) and mix_coeffs(B, A) store the same coefficients.
MixingSymmetric ==
  call.op = "mix_coeffs" => coeffs = mix_coeffs(variant, call.jmodel, call.imodel)

\* C3 as stated: a negative mu, xt or k always ends coeffs_to_local in the
\* "Illegal ... tangential model" error.
NegativeAlwaysIllegal ==
  (Localized /\ NegativeParameter) => (pc = "error" /\ errmsg = IllegalMessage(variant))

\* C3 as amended: a negative mu, xt or k ends coeffs_to_local in a fatal error,
\* the "Illegal ... tangential model" error unless the Mindlin stiffness is the
\* sentinel -1 and the normal model has no material properties, when it is the
\* missing-material error; no instance is ready, and no calculate_forces has
\* run, with a negative k, xt or mu.
NegativeAlwaysFatal ==
  /\ (Localized /\ NegativeParameter) =>
       /\ pc = "error"
       /\ errmsg = IF variant \in MindlinFamily /\ IsAuto(coeffs[1])
                       /\ ~normal_model.material_properties
                    THEN MissingMaterial
                    ELSE IllegalMessage(variant)
  /\ (pc = "ready" \/ steps > 0) => ~NegativeParameter

NegativeFrictionRejected ==
  pc = "error" /\ Lt(mu, Zero) /\ errmsg = IllegalMessage(variant)

\* C4: in the Mindlin family, coeffs_to_local with the stiffness coefficient -1
\* and a normal model without material properties ends in the missing-material
\* error and derives no stiffness.
AutoWithoutMaterialFails ==
  (variant \in MindlinFamily /\ Localized /\ IsAuto(coeffs[1])
     /\ ~normal_model.material_properties) =>
    (pc = "error" /\ errmsg = MissingMaterial /\ k = coeffs[1])

AutoWithoutMaterialSeen ==
  /\ variant \in MindlinFamily /\ Localized /\ IsAuto(coeffs[1])
  /\ ~normal_model.material_properties /\ errmsg = MissingMaterial

\* C5: in the Mindlin family, coeffs_to_local sets k to 8 * mix_stiffnessG(E, E,
\* nu, nu) when the stiffness coefficient is -1 and the normal model has material
\* properties, and to the coefficient itself when it is any other value.
AutoStiffnessValue ==
  (variant \in MindlinFamily /\ Localized) =>
    /\ (IsAuto(coeffs[1]) /\ normal_model.material_properties) =>
         k = Mul(R(8), mix_stiffnessG(normal_model.Emod, normal_model.Emod,
                                      normal_model.poiss, normal_model.poiss))
    /\ ~IsAuto(coeffs[1]) => k = coeffs[1]

AutoStiffnessDerived ==
  /\ variant \in MindlinFamily /\ pc = "ready" /\ IsAuto(coeffs[1])
  /\ normal_model.Emod = R(9) /\ normal_model.poiss = Q(1, 2) /\ k = R(8)

\* C6: with vtr = 0 and the three displacement/force slots zero on entry,
\* calculate_forces outputs a zero force and leaves the three slots zero.
RestState ==
  (Calculated /\ contact.vtr = ZeroVec /\ Vec3(locals.hent) = ZeroVec) =>
    (contact.fs = ZeroVec /\ Vec3(History) = ZeroVec)

\* C7: when the frame update runs, the magnitude of the three history slots
\* after the projection and rescale equals their magnitude before it.
ProjectionPreservesMagnitude ==
  (Calculated /\ locals.frame_update = 1) =>
    FEq(len3(locals.hrot), len3(locals.hscaled))

ProjectionRescaled ==
  /\ Calculated /\ locals.frame_update = 1
  /\ locals.hproj # locals.hscaled /\ locals.hrot # locals.hproj

\* the call that ended clipped the force and stored the back-derived history,
\* and the next call has the same kinematics and no history update
ClipRerun ==
  /\ Calculated /\ variant \in HistoryVariants /\ locals.clip /\ ~locals.shrzero
  /\ steps' = steps + 1
  /\ contact'.vtr = contact.vtr /\ contact'.nx = contact.nx /\ contact'.area = contact.area
  /\ normal_model'.Fncrit = normal_model.Fncrit
  /\ ~contact'.history_update

\* C8: re-running calculate_forces on the history stored by a clipping call,
\* with unchanged kinematics and no history update, gives the same force.
ClipFixedPoint == [][ClipRerun => contact'.fs = contact.fs]_vars

\* C9: LinearNoHistory has damp = xt * (damping model's damp) and outputs
\* Ft * vtr with Ft = -min(mu * Fncrit, damp * vrel) / vrel, or 0 when vrel
\* is 0; it writes no history slot.
NoHistoryForce ==
  (variant = "linear_nohistory" /\ Calculated) =>
    LET Fscrit == Mul(mu, normal_model.Fncrit)
        fsmag == Mul(damp, contact.vrel)
        least == IF Lt(fsmag, Fscrit) THEN fsmag ELSE Fscrit
        Ft == IF contact.vrel = Zero THEN Zero ELSE Neg(Div(least, contact.vrel))
    IN  /\ damp = Mul(xt, damping_model.damp)
        /\ contact.fs = scale3(Ft, contact.vtr)
        /\ contact.history = InitHistory(history_index, size_history)

NoHistoryForceLimited ==
  /\ variant = "linear_nohistory" /\ Calculated
  /\ contact.fs # ZeroVec
  /\ Lt(Mul(mu, normal_model.Fncrit), Mul(damp, contact.vrel))

\* C10: the mixed Mindlin stiffness coefficient is -1 when the stiffness
\* coefficient of either input is -1, and sqrt(a * b) otherwise.
MixPropagatesAuto ==
  (call.op = "mix_coeffs" /\ variant \in MindlinFamily) =>
    coeffs[1] = IF IsAuto(call.imodel[1]) \/ IsAuto(call.jmodel[1])
                THEN R(-1)
                ELSE Sqrt(Mul(call.imodel[1], call.jmodel[1]))

\* the number of persistent slots a variant needs per contact
SlotsNeeded(v) ==
  CASE v = "linear_nohistory" -> 0
    [] v \in {"linear_history", "mindlin", "mindlin_force"} -> 3
    [] OTHER -> 4

\* C11: size_history is, from construction on and whatever is called, the
\* number of persistent slots the variant needs: 0 for LinearNoHistory, 3 for
\* LinearHistory, Mindlin and MindlinForce, 4 for the two rescale variants.
HistorySizeFixed == size_history = SlotsNeeded(variant)

\* C12: a submodel with a transfer rule (transfer_history_factor non-null)
\* has a table of exactly size_history entries, so indices 0..size_history-1
\* lie inside the allocation.
TransferTableAllocated == transfer_alloc # 0 => transfer_alloc = size_history

\* C13: the rescale variants have nondefault_history_transfer set and the
\* transfer factors -1, -1, -1, +1; every other variant has no transfer rule.
TransferFactors ==
  IF variant \in {"mindlin_rescale", "mindlin_rescale_force"}
  THEN /\ nondefault_history_transfer = 1
       /\ transfer_history_factor = <<R(-1), R(-1), R(-1), One>>
  ELSE /\ nondefault_history_transfer = 0
       /\ transfer_alloc = 0
       /\ transfer_history_factor = <<>>

\* C14: a calculate_forces call with contact->history_update false leaves
\* every slot of contact->history as it was on entry.
HistoryFrozenWithoutUpdate ==
  (Calculated /\ ~contact.history_update) =>
    contact.history = WithSlice(InitHistory(history_index, size_history),
                                history_index, size_history, locals.hent)

\* C15: when the frame update runs, the history vector right after the
\* projection step is orthogonal to the unit normal nx.
ProjectionOrthogonal ==
  (Calculated /\ locals.frame_update = 1) => dot3(locals.hproj, contact.nx) = Zero

\* the change one integration step makes to the three displacement/force
\* slots: -k * dt * vtr (LinearHistory), -k * area * dt * vtr (force-rate
\* Mindlin variants), dt * vtr (displacement Mindlin variants)
ExpectedIncrement ==
  IF variant = "linear_history"
  THEN scale3(Neg(Mul(k, contact.dt)), contact.vtr)
  ELSE IF mindlin_force = 1
       THEN scale3(Neg(Mul(Mul(k, contact.area), contact.dt)), contact.vtr)
       ELSE scale3(contact.dt, contact.vtr)

\* a call that updated the history with no frame update and no clipping
PlainUpdate ==
  /\ Calculated /\ variant \in HistoryVariants
  /\ contact.history_update /\ locals.frame_update = 0 /\ ~locals.clip

\* C16 as stated: with history update enabled and no frame update or clipping,
\* one call changes the three history slots from their values on entry by
\* exactly the increment of the variant.
IntegrationFromEntry ==
  PlainUpdate => Vec3(History) = add3(Vec3(locals.hent), ExpectedIncrement)

\* C16 as amended: with history update enabled and no frame update or
\* clipping, one call changes the three history slots by exactly the increment
\* of the variant, counted from their values after the area rescale of the
\* rescale variants (their values on entry when the area has not shrunk and in
\* the other variants).
IntegrationStep ==
  PlainUpdate =>
    /\ Vec3(History) = add3(locals.hscaled, ExpectedIncrement)
    /\ (mindlin_rescale = 0 \/ ~Lt(contact.area, locals.hent[4])) =>
         locals.hscaled = Vec3(locals.hent)

IntegratedAfterShrink ==
  /\ PlainUpdate /\ mindlin_force = 1 /\ mindlin_rescale = 1
  /\ contact.vtr # ZeroVec /\ ~IsNaN(k) /\ k # Zero
  /\ locals.hscaled # Vec3(locals.hent)
  /\ Vec3(History) # locals.hscaled

\* the raw tangential force of the last call exceeded Fscrit = mu * Fncrit
RawAboveLimit ==
  /\ Calculated /\ variant \in HistoryVariants
  /\ Gt(len3(locals.fsraw), Mul(mu, normal_model.Fncrit))

\* the raw force scaled by Fscrit / |raw force|
RawScaledToLimit ==
  scale3(Div(Mul(mu, normal_model.Fncrit), len3(locals.fsraw)), locals.fsraw)

\* C17 as stated: whenever the raw force magnitude exceeds Fscrit, the output
\* force is the raw force scaled by Fscrit / |raw force| and has magnitude
\* exactly Fscrit.
ClipToLimitAlways ==
  RawAboveLimit =>
    /\ contact.fs = RawScaledToLimit
    /\ FEq(len3(contact.fs), Mul(mu, normal_model.Fncrit))

\* C17 as amended: whenever the raw force magnitude exceeds Fscrit and the
\* history magnitude is not zero, the output force is the raw force scaled by
\* Fscrit / |raw force| and has magnitude exactly Fscrit; when the history
\* magnitude is zero the output force is the zero vector.
ClipToLimit ==
  RawAboveLimit =>
    IF FNe(len3(locals.hint), Zero)
    THEN /\ contact.fs = RawScaledToLimit
         /\ FEq(len3(contact.fs), Mul(mu, normal_model.Fncrit))
    ELSE contact.fs = ZeroVec

ClippedToLimit ==
  /\ RawAboveLimit /\ FNe(len3(locals.hint), Zero)
  /\ Gt(Mul(mu, normal_model.Fncrit), Zero)
  /\ contact.fs # locals.fsraw /\ contact.fs # ZeroVec

\* the clip branch was taken with a history magnitude of exactly zero
DegenerateClip == RawAboveLimit /\ FEq(len3(locals.hint), Zero)

\* C18: when the clip branch is taken and the history magnitude is exactly
\* zero, calculate_forces sets the output force to the zero vector, leaves the
\* three displacement/force slots zero and raises no error.
DegenerateClipZeroes ==
  DegenerateClip =>
    /\ contact.fs = ZeroVec
    /\ Vec3(History) = ZeroVec
    /\ locals.shrzero
    /\ pc = "ready" /\ errmsg = ""

DegenerateClipSeen ==
  /\ DegenerateClip /\ locals.fsraw # ZeroVec
  /\ Gt(Mul(mu, normal_model.Fncrit), Zero)

\* the last call was one of a rescale variant and found the area smaller than
\* the reference area stored in slot 3
Shrunk ==
  /\ Calculated /\ mindlin_rescale = 1
  /\ Lt(contact.area, locals.hent[4])

\* the three slots are multiplied by area / stored area when the area has
\* shrunk and used unscaled otherwise
AreaRescaleApplied ==
  (Calculated /\ mindlin_rescale = 1) =>
    locals.hscaled = IF Shrunk
                     THEN scale3(Div(contact.area, locals.hent[4]), Vec3(locals.hent))
                     ELSE Vec3(locals.hent)

\* with history update enabled slot 3 holds the current area after the call
AreaRecorded ==
  (Calculated /\ mindlin_rescale = 1 /\ contact.history_update) =>
    History[4] = contact.area

\* a shrink is not applied a second time for the same recorded area: after a
\* call that applied it, slot 3 no longer exceeds the area of that call, so a
\* further call at the same area leaves the three slots unscaled
ShrinkOnce == Shrunk => ~Lt(contact.area, History[4])

\* the non-rescale variants leave the slot after their three slots alone
NoFourthSlot ==
  (Calculated /\ variant \in HistoryVariants /\ mindlin_rescale = 0) =>
    /\ Len(History) = 3
    /\ contact.history[history_index + 4] = OtherSlot

\* C19: the rescale variants multiply the three stored components by
\* area / stored area when the area is smaller than the one stored in slot 3
\* and use them unscaled otherwise; with history update enabled slot 3 is set
\* to the current area; the same shrink is applied at most once per recorded
\* area; the non-rescale variants never read or write slot 3.
AreaRescaling == AreaRescaleApplied /\ AreaRecorded /\ ShrinkOnce /\ NoFourthSlot

\* the last call was a mix_coeffs, of GSM or of a Tangential* class, that returned
Mixed == call.op \in {"mix_coeffs", "GSM::mix_coeffs"} /\ pc = "ready"

\* the coefficient every mix_coeffs sets by the default rule sqrt(a * b): all
\* of them, but for the stiffness in the Mindlin override
MixedByDefault(i) ==
  ~(call.op = "mix_coeffs" /\ variant \in MindlinFamily /\ i = 1)

\* C20: after a successful mix_coeffs the coefficients hold their mixed
\* values and k, xt, mu and damp are what coeffs_to_local computes from the
\* stored coefficients and the damping submodel's damp.
WorkingParametersCurrent ==
  Mixed =>
    /\ \A i \in 1..num_coeffs :
         MixedByDefault(i) => coeffs[i] = Sqrt(Mul(call.imodel[i], call.jmodel[i]))
    /\ <<k, xt, mu, damp>> =
         <<coeffs_to_local(variant, coeffs, normal_model, damping_model, damp).k,
           coeffs[num_coeffs - 1], coeffs[num_coeffs],
           Mul(coeffs[num_coeffs - 1], damping_model.damp)>>
    /\ coeffs_to_local(variant, coeffs, normal_model, damping_model, damp).err = ""

MixedWorkingParameters ==
  /\ Mixed /\ call.op = "GSM::mix_coeffs" /\ variant \in MindlinFamily
  /\ call.imodel = <<R(4), One, One>> /\ call.jmodel = <<R(4), One, Zero>>
  /\ k = R(4) /\ xt = One /\ mu = Zero /\ damp = R(2)

\* the slots of contact->history outside the instance's slice
\* history_index .. history_index + size_history - 1 (counted from 0)
OutsideSlice ==
  {i \in 1..Len(contact.history) : i <= history_index \/ i > history_index + size_history}

\* C21: calculate_forces leaves every slot of contact->history outside the
\* instance's slice, the slots of other submodels, as it was.
SliceOwnership ==
  Calculated => \A i \in OutsideSlice : contact.history[i] = OtherSlot

SliceWritten ==
  /\ Calculated /\ variant = "mindlin" /\ contact.history_update
  /\ OutsideSlice = {1, 5}
  /\ Vec3(History) # ZeroVec

\* ----------------------------------------------- properties of fix oneway

\* the last call was end_of_step; call.atom holds the atoms it was given
EndOfStepDone == call.op = "end_of_step"

\* const int idx = direction & XYZMASK
Axis == BitAnd(direction, XYZMASK)

\* atom i was in the fix group and inside the region when end_of_step ran
InFix(i) == Selected(call.atom, groupbit, region, i)

\* C22: after end_of_step every local atom in the group and the region has
\* its velocity along the axis >= 0 for a plus and <= 0 for a minus
\* direction with the magnitude it had; its other two components, the
\* velocities of all other atoms and all positions are as before, and
\* another end_of_step changes nothing.
EndOfStepPostcondition ==
  EndOfStepDone =>
    /\ atom.x = call.atom.x
    /\ \A i \in 1..atom.nlocal :
         IF InFix(i)
           THEN \A j \in 0..2 :
                  IF j = Axis
                    THEN /\ IF BitAnd(direction, MINUS) # 0
                              THEN Le(atom.v[i][j + 1], Zero)
                              ELSE Le(Zero, atom.v[i][j + 1])
                         /\ Fabs(atom.v[i][j + 1]) = Fabs(call.atom.v[i][j + 1])
                    ELSE atom.v[i][j + 1] = call.atom.v[i][j + 1]
           ELSE atom.v[i] = call.atom.v[i]
    /\ \A contiguous \in BOOLEAN :
         end_of_step(atom, direction, groupbit, region, contiguous) = atom

\* the six encodings of an axis with a sign
ValidDirections == {BitOr(a, s) : a \in {X, Y, Z}, s \in {PLUS, MINUS}}

\* what C22 states, for the fixes whose direction is one of the six encodings
EndOfStepPostconditionValid ==
  direction \in ValidDirections => EndOfStepPostcondition

\* an atom in the group and the region was moving against a valid direction
\* and end_of_step turned it around
ReflectedAtom ==
  /\ EndOfStepDone /\ direction \in ValidDirections
  /\ \E i \in 1..atom.nlocal :
       InFix(i) /\ atom.v[i][Axis + 1] = Neg(call.atom.v[i][Axis + 1])
                /\ atom.v[i] # call.atom.v[i]

\* C23: a fix oneway that was constructed without an error has one of the
\* six valid encodings in direction, so end_of_step never runs with
\* direction = NONE and its idx is in 0..2.
DirectionValid ==
  /\ pc \in {"constructed", "initialized"} => direction \in ValidDirections
  /\ EndOfStepDone => (direction # NONE /\ Axis \in 0..2)

\* whenever the constructor fails, it fails with the illegal-command message
ConstructionFailsIllegal ==
  (pc = "error" /\ call.op = "FixOneWay") => errmsg = IllegalOneWay

====
